---- MODULE Spec2Model ----
(***************************************************************************)
(* A model of pdf_manipulation.py: the five page-level operations          *)
(* (merge_pdf_2in1, del_pdf_pages, merge_pdf, split_pdf,                   *)
(* split_pdf_by_pages), the handle resolver check_pdf_args, the page-list  *)
(* parser _parse_pages_list and the delpages command of __main__.          *)
(*                                                                         *)
(* A Document is a sequence of pages; a source page is an integer that     *)
(* identifies it (file and position), a page composed by the 2-in-1 layout *)
(* is a record of what was drawn in its left and right half.  The PDF      *)
(* engine (fitz) is modelled by what the calls of the source do to page    *)
(* sequences: open, insert_pdf, delete_page, new_page/show_pdf_page, save, *)
(* close.  One behaviour is one invocation: idle, a call, its loop steps,  *)
(* and then "done" (returned) or "raised" (an exception left the call).    *)
(***************************************************************************)
EXTENDS Integers, Sequences, FiniteSets, TLC

VARIABLES pc, cmd, args, heap, loc, files, stdout, err, intent

vars == <<pc, cmd, args, heap, loc, files, stdout, err, intent>>

\* ---------------------------------------------------------------- bounds
\* Files on disk have 1..MaxPages pages.
MaxPages == 5
\* Longest del_pages list a caller passes to del_pdf_pages.
MaxDel == 2
\* Longest pdf_list passed to merge_pdf.
MaxSources == 2
\* Most tokens in a page-list string given to the delpages command.
MaxTokens == 2
\* Largest number written in the generated page-list strings.
MaxNum == 3

\* --------------------------------------------------------------- values
\* pages_per_doc's default (and the -n default of split_by_pages).
DefaultPagesPerDoc == 10

\* Python's None for a Document, a path, a page.
NoDoc == 0
NoPath == 0
NoPage == 0

\* The files on disk: path n names a PDF of n pages.
Paths == 1..MaxPages

\* The page at 1-based position i of the file at `path`.
PageId(path, i) == path * (MaxPages + 1) + i

FilePages(path) == [i \in 1..path |-> PageId(path, i)]

Min(a, b) == IF a < b THEN a ELSE b

\* ------------------------------------------------------------ the engine
\* fitz.open(path) / fitz.open(): a new handle; byOp tells whether the
\* operation opened it (or its caller did), name is the path it was read from.
OpenDoc(pages, byOp, name) ==
  [pages |-> pages, closed |-> FALSE, byOp |-> byOp, name |-> name]

\* fitz.open(path).
OpenPath(path, byOp) == OpenDoc(FilePages(path), byOp, path)

\* fitz.open().
OpenEmpty == OpenDoc(<<>>, TRUE, NoPath)

\* Document.close().
CloseDoc(h, d) == [h EXCEPT ![d].closed = TRUE]

\* Document.delete_page(pno), pno 0-based: the pages without the one at pno.
DeletePageAt(pages, pno) ==
  [j \in 1..(Len(pages) - 1) |-> IF j <= pno THEN pages[j] ELSE pages[j + 1]]

\* The deletion call's own bounds check: an index outside the document raises.
DeleteRaises(pages, pno) == ~(0 <= pno /\ pno < Len(pages))

\* Document.insert_pdf(src, from_page, to_page), 0-based inclusive: append.
InsertPdf(dst, src, from_page, to_page) ==
  dst \o SubSeq(src, from_page + 1, to_page + 1)

\* Document.save(path): errors of the engine are not caught by the source; a
\* document without pages is the one the engine may refuse.
SaveOutcomes(pages) == IF Len(pages) = 0 THEN {"saved", "ValueError"} ELSE {"saved"}

OutPdf == [stem |-> 0, suffix |-> "out", num |-> 0]

SavedFile(name, pages) == [name |-> name, pages |-> pages]

\* ------------------------------------------------------- check_pdf_args
\* A mutant: both a handle and a path given is accepted, the handle wins.
check_pdf_args_lenient(h, pdf, pdf_path) ==
  IF pdf = NoDoc /\ pdf_path # NoPath
  THEN [raised |-> FALSE, pdf |-> Len(h) + 1,
        heap |-> Append(h, OpenPath(pdf_path, TRUE))]
  ELSE IF pdf # NoDoc
  THEN [raised |-> FALSE, pdf |-> pdf, heap |-> h]
  ELSE [raised |-> TRUE, pdf |-> NoDoc, heap |-> h]

check_pdf_args(h, pdf, pdf_path) ==
  IF pdf = NoDoc /\ pdf_path # NoPath
  THEN [raised |-> FALSE, pdf |-> Len(h) + 1,
        heap |-> Append(h, OpenPath(pdf_path, TRUE))]
  ELSE IF pdf # NoDoc /\ pdf_path = NoPath
  THEN [raised |-> FALSE, pdf |-> pdf, heap |-> h]
  ELSE [raised |-> TRUE, pdf |-> NoDoc, heap |-> h]

\* --------------------------------------------------------------- inputs
NoDelPages == [type |-> "NoneType", n |-> 0, lst |-> <<>>]

NoArgs == [pdf |-> NoDoc, pdf_path |-> NoPath, del_pages |-> NoDelPages,
           pdf_list |-> <<>>, pages_per_doc |-> 0, raw |-> <<>>]

NoLoc == [doc |-> NoDoc, out |-> NoDoc, i |-> 0, npage |-> 0, doc_num |-> 0,
          q |-> <<>>, parsed |-> <<>>, parsedNone |-> FALSE]

\* The heap a caller hands over: empty, or the one Document it opened itself.
CallerHeap(given, src) == IF given THEN <<OpenPath(src, FALSE)>> ELSE <<>>

CallerPdf(given) == IF given THEN 1 ELSE NoDoc

SeqsUpTo(S, n) == UNION {[1..k -> S] : k \in 0..n}

\* What the user of the delpages command meant by the string typed: the tokens
\* it was written from (a history variable, read by no action).
NoIntent == [tokens |-> <<>>, wellFormed |-> FALSE]

Init ==
  /\ pc = "idle"
  /\ cmd = "none"
  /\ args = NoArgs
  /\ heap = <<>>
  /\ loc = NoLoc
  /\ files = <<>>
  /\ stdout = <<>>
  /\ err = "none"
  /\ intent = NoIntent

Raise(e) == pc' = "raised" /\ err' = e

\* ------------------------------------------------------- merge_pdf_2in1
\* A mutant: the right half shows the pair's first page again.
RightIndex_same(i) == i

\* The 0-based source index drawn in the right half of the pair starting at i.
RightIndex(i) == i + 1

\* One output page of the pair starting at 0-based i.
NewPage2in1(pdf, i) ==
  [left  |-> IF i < Len(pdf) THEN pdf[i + 1] ELSE NoPage,
   right |-> IF RightIndex(i) < Len(pdf) THEN pdf[RightIndex(i) + 1] ELSE NoPage]

Call2in1 ==
  /\ pc = "idle"
  /\ \E given \in BOOLEAN, src \in Paths, path \in Paths \cup {NoPath} :
       LET h0 == CallerHeap(given, src)
           r  == check_pdf_args(h0, CallerPdf(given), path)
       IN /\ cmd' = "merge_pdf_2in1"
          /\ args' = [NoArgs EXCEPT !.pdf = CallerPdf(given), !.pdf_path = path]
          /\ IF r.raised
             THEN /\ Raise("ValueError")
                  /\ heap' = h0
                  /\ loc' = loc
             ELSE /\ pc' = "2in1_loop"
                  /\ err' = err
                  /\ heap' = Append(r.heap, OpenEmpty)
                  /\ loc' = [loc EXCEPT !.doc = r.pdf, !.out = Len(r.heap) + 1, !.i = 0]
  /\ UNCHANGED <<files, stdout, intent>>

Loop2in1 ==
  /\ pc = "2in1_loop"
  /\ loc.i < Len(heap[loc.doc].pages)
  /\ heap' = [heap EXCEPT ![loc.out].pages =
                Append(@, NewPage2in1(heap[loc.doc].pages, loc.i))]
  /\ loc' = [loc EXCEPT !.i = @ + 2]
  /\ UNCHANGED <<pc, cmd, args, files, stdout, err, intent>>

Finish2in1 ==
  /\ pc = "2in1_loop"
  /\ loc.i >= Len(heap[loc.doc].pages)
  /\ \E o \in SaveOutcomes(heap[loc.out].pages) :
       IF o = "saved"
       THEN /\ files' = Append(files, SavedFile(OutPdf, heap[loc.out].pages))
            /\ heap' = CloseDoc(heap, loc.out)
            /\ stdout' = Append(stdout, "Saved")
            /\ pc' = "done"
            /\ err' = err
       ELSE /\ Raise(o)
            /\ UNCHANGED <<files, heap, stdout>>
  /\ UNCHANGED <<cmd, args, loc, intent>>

\* -------------------------------------------------------- del_pdf_pages
RECURSIVE InsertDesc(_, _)
\* x put into the descending sequence s, before the first smaller element.
InsertDesc(x, s) ==
  IF s = <<>> THEN <<x>>
  ELSE IF x >= Head(s) THEN <<x>> \o s
  ELSE <<Head(s)>> \o InsertDesc(x, Tail(s))

RECURSIVE SortDescending(_)
SortDescending(lst) ==
  IF lst = <<>> THEN <<>> ELSE InsertDesc(Head(lst), SortDescending(Tail(lst)))

\* A mutant: the list is deleted in the order given.
SortReverse_unsorted(lst) == lst

\* del_pages.sort(reverse=True).
SortReverse(lst) == SortDescending(lst)

\* The del_pages values a caller passes: an int, a list, or neither.
DelPagesInputs ==
  {[type |-> "int", n |-> n, lst |-> <<>>] : n \in 1..MaxPages}
    \cup {[type |-> "list", n |-> 0, lst |-> l] : l \in SeqsUpTo(1..MaxPages, MaxDel)}
    \cup {[type |-> t, n |-> 0, lst |-> <<>>] : t \in {"NoneType", "str"}}

\* del_pdf_pages from its first line to the start of its loop, on heap h0.
del_pdf_pages_enter(h0, a, l0) ==
  LET r == check_pdf_args(h0, a.pdf, a.pdf_path)
      d == a.del_pages
  IN /\ args' = a
     /\ IF r.raised
        THEN /\ Raise("ValueError")
             /\ heap' = h0
             /\ loc' = [l0 EXCEPT !.doc = NoDoc]
             /\ stdout' = stdout
        ELSE IF d.type = "int"
        THEN IF DeleteRaises(r.heap[r.pdf].pages, d.n - 1)
             THEN /\ Raise("ValueError")
                  /\ heap' = r.heap
                  /\ loc' = [l0 EXCEPT !.doc = r.pdf]
                  /\ stdout' = stdout
             ELSE /\ pc' = "del_loop"
                  /\ err' = err
                  /\ heap' = [r.heap EXCEPT ![r.pdf].pages = DeletePageAt(@, d.n - 1)]
                  /\ loc' = [l0 EXCEPT !.doc = r.pdf, !.q = <<>>]
                  /\ stdout' = stdout
        ELSE IF d.type = "list"
        THEN /\ pc' = "del_loop"
             /\ err' = err
             /\ heap' = r.heap
             /\ loc' = [l0 EXCEPT !.doc = r.pdf, !.q = SortReverse(d.lst)]
             /\ stdout' = stdout
        ELSE /\ pc' = "done"
             /\ err' = err
             /\ heap' = r.heap
             /\ loc' = [l0 EXCEPT !.doc = r.pdf]
             /\ stdout' = Append(stdout, "Error: del_pages must be int or list")

CallDel ==
  /\ pc = "idle"
  /\ \E given \in BOOLEAN, src \in Paths, path \in Paths \cup {NoPath},
        d \in DelPagesInputs :
       /\ cmd' = "del_pdf_pages"
       /\ del_pdf_pages_enter(CallerHeap(given, src),
            [NoArgs EXCEPT !.pdf = CallerPdf(given), !.pdf_path = path,
                           !.del_pages = d], loc)
  /\ UNCHANGED <<files, intent>>

\* One turn of "for p in del_pages: doc.delete_page(p-1)".
LoopDel ==
  /\ pc = "del_loop"
  /\ loc.q # <<>>
  /\ LET p == Head(loc.q)
     IN IF DeleteRaises(heap[loc.doc].pages, p - 1)
        THEN /\ Raise("ValueError")
             /\ UNCHANGED <<heap, loc>>
        ELSE /\ heap' = [heap EXCEPT ![loc.doc].pages = DeletePageAt(@, p - 1)]
             /\ loc' = [loc EXCEPT !.q = Tail(@)]
             /\ UNCHANGED <<pc, err>>
  /\ UNCHANGED <<cmd, args, files, stdout, intent>>

FinishDel ==
  /\ pc = "del_loop"
  /\ loc.q = <<>>
  /\ \E o \in SaveOutcomes(heap[loc.doc].pages) :
       IF o = "saved"
       THEN /\ files' = Append(files, SavedFile(OutPdf, heap[loc.doc].pages))
            /\ heap' = CloseDoc(heap, loc.doc)
            /\ stdout' = Append(stdout, "Saved")
            /\ pc' = "done"
            /\ err' = err
       ELSE /\ Raise(o)
            /\ UNCHANGED <<files, heap, stdout>>
  /\ UNCHANGED <<cmd, args, loc, intent>>

\* ------------------------------------------------------------ merge_pdf
\* "import copy" binds the module copy, so "copy(pdf)" calls a module object:
\* the call raises TypeError before any Document is made.
CopyOutcome == "TypeError"

CallMerge ==
  /\ pc = "idle"
  /\ \E given \in BOOLEAN, src \in Paths, lst \in SeqsUpTo(Paths, MaxSources) :
       LET h0 == CallerHeap(given, src)
       IN /\ cmd' = "merge_pdf"
          /\ args' = [NoArgs EXCEPT !.pdf = CallerPdf(given), !.pdf_list = lst]
          /\ IF CallerPdf(given) = NoDoc
             THEN /\ heap' = Append(h0, OpenEmpty)
                  /\ loc' = [loc EXCEPT !.out = Len(h0) + 1, !.q = lst]
                  /\ pc' = "merge_loop"
                  /\ err' = err
             ELSE /\ Raise(CopyOutcome)
                  /\ heap' = h0
                  /\ loc' = loc
  /\ UNCHANGED <<files, stdout, intent>>

\* One turn of the loop: "with fitz.open(pdf_file) as doc: insert_pdf(doc)".
LoopMerge ==
  /\ pc = "merge_loop"
  /\ loc.q # <<>>
  /\ LET doc == OpenPath(Head(loc.q), TRUE)
         h1  == Append(heap, doc)
         h2  == [h1 EXCEPT ![loc.out].pages =
                   InsertPdf(@, doc.pages, 0, Len(doc.pages) - 1)]
     IN heap' = CloseDoc(h2, Len(h1))
  /\ loc' = [loc EXCEPT !.q = Tail(@)]
  /\ UNCHANGED <<pc, cmd, args, files, stdout, err, intent>>

FinishMerge ==
  /\ pc = "merge_loop"
  /\ loc.q = <<>>
  /\ \E o \in SaveOutcomes(heap[loc.out].pages) :
       IF o = "saved"
       THEN /\ files' = Append(files, SavedFile(OutPdf, heap[loc.out].pages))
            /\ heap' = CloseDoc(heap, loc.out)
            /\ stdout' = Append(stdout, "Saved")
            /\ pc' = "done"
            /\ err' = err
       ELSE /\ Raise(o)
            /\ UNCHANGED <<files, heap, stdout>>
  /\ UNCHANGED <<cmd, args, loc, intent>>

\* ------------------------------------------------------------ split_pdf
\* The name of an output file: "{stem}{suffix}{num}.pdf" of the source `path`.
OutName(path, suffix, num) == [stem |-> path, suffix |-> suffix, num |-> num]

\* A mutant: the 0-based loop index is used as the number in the file name.
SplitFileNum_zero_based(page_num) == page_num

\* The number in "{fstem}_p{page_num + 1}.pdf".
SplitFileNum(page_num) == page_num + 1

CallSplit ==
  /\ pc = "idle"
  /\ \E path \in Paths :
       /\ cmd' = "split_pdf"
       /\ args' = [NoArgs EXCEPT !.pdf_path = path]
       /\ heap' = <<OpenPath(path, TRUE)>>
       /\ loc' = [loc EXCEPT !.doc = 1, !.npage = path, !.i = 0]
       /\ pc' = "split_loop"
  /\ UNCHANGED <<files, stdout, err, intent>>

\* new_doc = fitz.open(); new_doc.insert_pdf(doc, from_page=i, to_page=i).
OpenSplit ==
  /\ pc = "split_loop"
  /\ loc.i < loc.npage
  /\ heap' = Append(heap,
       [OpenEmpty EXCEPT !.pages = InsertPdf(@, heap[loc.doc].pages, loc.i, loc.i)])
  /\ loc' = [loc EXCEPT !.out = Len(heap) + 1]
  /\ pc' = "split_save"
  /\ UNCHANGED <<cmd, args, files, stdout, err, intent>>

\* new_doc.save(output_filename); new_doc.close(); print; next page_num.
SaveSplit ==
  /\ pc = "split_save"
  /\ files' = Append(files,
       SavedFile(OutName(args.pdf_path, "_p", SplitFileNum(loc.i)), heap[loc.out].pages))
  /\ heap' = CloseDoc(heap, loc.out)
  /\ stdout' = Append(stdout, "Saved")
  /\ loc' = [loc EXCEPT !.i = @ + 1]
  /\ pc' = "split_loop"
  /\ UNCHANGED <<cmd, args, err, intent>>

FinishSplit ==
  /\ pc = "split_loop"
  /\ loc.i >= loc.npage
  /\ heap' = CloseDoc(heap, loc.doc)
  /\ pc' = "done"
  /\ UNCHANGED <<cmd, args, loc, files, stdout, err, intent>>

\* --------------------------------------------------- split_pdf_by_pages
\* A mutant: the block ends one page late (the "- 1" of the end is dropped).
EndPage_late(start_page, pages_per_doc, npage) ==
  Min(start_page + pages_per_doc, npage - 1)

\* end_page = min(start_page + pages_per_doc - 1, npage - 1).
EndPage(start_page, pages_per_doc, npage) ==
  Min(start_page + pages_per_doc - 1, npage - 1)

\* The pages_per_doc values tried: 0 (range() refuses a zero step), the small
\* ones, and the default.
PagesPerDocInputs == 0..(MaxPages + 1) \cup {DefaultPagesPerDoc}

CallSplitBy ==
  /\ pc = "idle"
  /\ \E path \in Paths, k \in PagesPerDocInputs :
       /\ cmd' = "split_pdf_by_pages"
       /\ args' = [NoArgs EXCEPT !.pdf_path = path, !.pages_per_doc = k]
       /\ heap' = <<OpenPath(path, TRUE)>>
       /\ loc' = [loc EXCEPT !.doc = 1, !.npage = path, !.i = 0, !.doc_num = 1]
       /\ IF k = 0
          THEN Raise("ValueError")
          ELSE pc' = "by_loop" /\ err' = err
  /\ UNCHANGED <<files, stdout, intent>>

\* One turn of "for start_page in range(0, npage, pages_per_doc)".
LoopSplitBy ==
  /\ pc = "by_loop"
  /\ loc.i < loc.npage
  /\ LET end_page == EndPage(loc.i, args.pages_per_doc, loc.npage)
         new_doc  == [OpenEmpty EXCEPT !.pages =
                        InsertPdf(@, heap[loc.doc].pages, loc.i, end_page)]
     IN /\ heap' = CloseDoc(Append(heap, new_doc), Len(heap) + 1)
        /\ files' = Append(files,
             SavedFile(OutName(args.pdf_path, "_", loc.doc_num), new_doc.pages))
  /\ stdout' = Append(stdout, "Saved")
  /\ loc' = [loc EXCEPT !.i = @ + args.pages_per_doc, !.doc_num = @ + 1]
  /\ UNCHANGED <<pc, cmd, args, err, intent>>

FinishSplitBy ==
  /\ pc = "by_loop"
  /\ loc.i >= loc.npage
  /\ heap' = CloseDoc(heap, loc.doc)
  /\ pc' = "done"
  /\ UNCHANGED <<cmd, args, loc, files, stdout, err, intent>>

\* ---------------------------------------------------- _parse_pages_list
\* A str is a sequence of one-character strings.
Digits == <<"0", "1", "2", "3", "4", "5", "6", "7", "8", "9">>

IsDigit(c) == \E d \in 1..10 : Digits[d] = c

DigitVal(c) == (CHOOSE d \in 1..10 : Digits[d] = c) - 1

RECURSIVE StripLeft(_)
StripLeft(s) == IF s # <<>> /\ Head(s) = " " THEN StripLeft(Tail(s)) ELSE s

RECURSIVE StripRight(_)
StripRight(s) ==
  IF s # <<>> /\ s[Len(s)] = " " THEN StripRight(SubSeq(s, 1, Len(s) - 1)) ELSE s

\* str.strip().
Strip(s) == StripRight(StripLeft(s))

\* str.replace(old, new) for single characters.
Replace(s, old, new) == [j \in 1..Len(s) |-> IF s[j] = old THEN new ELSE s[j]]

RECURSIVE SplitFrom(_, _)
\* str.split() continued: cur is the word being read.
SplitFrom(s, cur) ==
  IF s = <<>> THEN (IF cur = <<>> THEN <<>> ELSE <<cur>>)
  ELSE IF Head(s) = " "
  THEN (IF cur = <<>> THEN <<>> ELSE <<cur>>) \o SplitFrom(Tail(s), <<>>)
  ELSE SplitFrom(Tail(s), Append(cur, Head(s)))

\* str.split(): the words between runs of whitespace.
Split(s) == SplitFrom(s, <<>>)

\* "c in p".
Contains(p, c) == \E j \in 1..Len(p) : p[j] = c

FirstIndex(p, c) == CHOOSE j \in 1..Len(p) : p[j] = c /\ \A k \in 1..(j - 1) : p[k] # c

AllDigits(x) == x # <<>> /\ \A j \in 1..Len(x) : IsDigit(x[j])

\* Whether int(x) returns: digits, after an optional minus sign.
IntOk(x) == AllDigits(x) \/ (x # <<>> /\ Head(x) = "-" /\ AllDigits(Tail(x)))

RECURSIVE NatVal(_)
NatVal(x) == IF x = <<>> THEN 0 ELSE 10 * NatVal(SubSeq(x, 1, Len(x) - 1)) + DigitVal(x[Len(x)])

\* int(x) where IntOk(x).
IntVal(x) == IF Head(x) = "-" THEN 0 - NatVal(Tail(x)) ELSE NatVal(x)

\* A mutant: the range stops before b (the "+ 1" of the end is dropped).
RangeList_exclusive(a, b) == [j \in 1..(IF b > a THEN b - a ELSE 0) |-> a + j - 1]

\* list(range(a, b + 1)).
RangeList(a, b) == [j \in 1..(IF b >= a THEN b - a + 1 ELSE 0) |-> a + j - 1]

\* The loop body for one part p: [raised, nums].
ParsePart(p) ==
  IF Contains(p, "-")
  THEN LET k == FirstIndex(p, "-")
           a == SubSeq(p, 1, k - 1)
           b == SubSeq(p, k + 1, Len(p))
       IN IF IntOk(a) /\ IntOk(b)
          THEN [raised |-> FALSE, nums |-> RangeList(IntVal(a), IntVal(b))]
          ELSE [raised |-> TRUE, nums |-> <<>>]
  ELSE IF IntOk(p)
       THEN [raised |-> FALSE, nums |-> <<IntVal(p)>>]
       ELSE [raised |-> TRUE, nums |-> <<>>]

RECURSIVE ParseParts(_)
\* "for p in parts": the numbers of every part, or the first ValueError.
ParseParts(parts) ==
  IF parts = <<>> THEN [raised |-> FALSE, nums |-> <<>>]
  ELSE LET hd == ParsePart(Head(parts))
           tl == ParseParts(Tail(parts))
       IN IF hd.raised \/ tl.raised
          THEN [raised |-> TRUE, nums |-> <<>>]
          ELSE [raised |-> FALSE, nums |-> hd.nums \o tl.nums]

\* _parse_pages_list(s): [raised, none, nums].
parse_pages_list(s) ==
  LET t == Strip(s)
  IN IF t = <<>>
     THEN [raised |-> FALSE, none |-> TRUE, nums |-> <<>>]
     ELSE LET r == ParseParts(Split(Replace(t, ",", " ")))
          IN [raised |-> r.raised, none |-> FALSE, nums |-> r.nums]

\* ------------------------------------------------- the delpages command
\* The page-list mini-syntax as a user writes it: a token is one 1-based
\* number, or a range "a-b"; tokens are joined by a comma, a space or both.
Single(n) == [range |-> FALSE, a |-> n, b |-> n]

Range(a, b) == [range |-> TRUE, a |-> a, b |-> b]

RECURSIVE ToStr(_)
\* A number in decimal digits.
ToStr(n) == IF n < 10 THEN <<Digits[n + 1]>> ELSE ToStr(n \div 10) \o <<Digits[(n % 10) + 1]>>

TokenStr(t) == IF t.range THEN ToStr(t.a) \o <<"-">> \o ToStr(t.b) ELSE ToStr(t.a)

RECURSIVE Join(_, _)
Join(toks, sep) ==
  IF Len(toks) = 1 THEN TokenStr(toks[1])
  ELSE TokenStr(Head(toks)) \o sep \o Join(Tail(toks), sep)

\* The numbers written in the generated strings.
Nums == 1..MaxNum

Tokens ==
  {Single(n) : n \in Nums}
    \cup {Range(ab[1], ab[2]) : ab \in {x \in Nums \X Nums : x[1] <= x[2]}}

Separators == {<<",">>, <<" ">>}

\* Strings that are no list of tokens, or are one with blanks around it.
EdgeInputs ==
  {[raw |-> r, tokens |-> <<>>, wellFormed |-> FALSE] :
     r \in {<<>>, <<" ">>, <<" ", " ">>, <<",">>, <<"2", "-">>, <<"-", "2">>,
            <<"1", "-", "-", "2">>, <<"1", "-", "2", "-", "3">>, <<"x">>}}
    \cup {[raw |-> <<" ", "2", " ", ",", " ", "3", " ">>,
           tokens |-> <<Single(2), Single(3)>>, wellFormed |-> TRUE],
          [raw |-> <<" ", "1", "-", "2", " ">>,
           tokens |-> <<Range(1, 2)>>, wellFormed |-> TRUE],
          [raw |-> <<"2", ",", " ", "1", "-", "2">>,
           tokens |-> <<Single(2), Range(1, 2)>>, wellFormed |-> TRUE],
          [raw |-> <<"3", "-", "1">>,
           tokens |-> <<Range(3, 1)>>, wellFormed |-> TRUE],
          [raw |-> <<"2", "-", "1", ",", "1">>,
           tokens |-> <<Range(2, 1), Single(1)>>, wellFormed |-> TRUE],
          [raw |-> <<"1", ",", "3", ",", "5">>,
           tokens |-> <<Single(1), Single(3), Single(5)>>, wellFormed |-> TRUE],
          [raw |-> <<"2", "-", "4">>,
           tokens |-> <<Range(2, 4)>>, wellFormed |-> TRUE],
          [raw |-> <<"2", ",", "4">>,
           tokens |-> <<Single(2), Single(4)>>, wellFormed |-> TRUE],
          [raw |-> <<"1", "2">>,
           tokens |-> <<Single(12)>>, wellFormed |-> TRUE],
          [raw |-> <<"9", "-", "1", "1">>,
           tokens |-> <<Range(9, 11)>>, wellFormed |-> TRUE]}

DelpagesInputs ==
  {[raw |-> Join(toks, sep), tokens |-> toks, wellFormed |-> TRUE] :
     toks \in SeqsUpTo(Tokens, MaxTokens) \ {<<>>}, sep \in Separators}
    \cup EdgeInputs

\* __main__, cmd == "delpages": parse args.del_pages, then call del_pdf_pages
\* with the list, or with its only element when it has one.
CliDelpages ==
  /\ pc = "idle"
  /\ \E path \in Paths, inp \in DelpagesInputs :
       LET parsed == parse_pages_list(inp.raw)
           a0 == [NoArgs EXCEPT !.raw = inp.raw, !.pdf_path = path]
           l0 == [loc EXCEPT !.parsed = parsed.nums, !.parsedNone = parsed.none]
       IN /\ cmd' = "delpages"
          /\ intent' = [tokens |-> inp.tokens, wellFormed |-> inp.wellFormed]
          /\ IF parsed.raised
             THEN /\ Raise("ValueError")
                  /\ args' = a0
                  /\ loc' = loc
                  /\ UNCHANGED <<heap, stdout>>
             ELSE IF parsed.none
             THEN /\ Raise("TypeError")
                  /\ args' = a0
                  /\ loc' = l0
                  /\ UNCHANGED <<heap, stdout>>
             ELSE IF Len(parsed.nums) > 1
             THEN del_pdf_pages_enter(<<>>,
                    [a0 EXCEPT !.del_pages =
                       [type |-> "list", n |-> 0, lst |-> parsed.nums]], l0)
             ELSE IF Len(parsed.nums) = 0
             THEN /\ Raise("IndexError")
                  /\ args' = a0
                  /\ loc' = l0
                  /\ UNCHANGED <<heap, stdout>>
             ELSE del_pdf_pages_enter(<<>>,
                    [a0 EXCEPT !.del_pages =
                       [type |-> "int", n |-> parsed.nums[1], lst |-> <<>>]], l0)
  /\ UNCHANGED files

Next ==
  \/ Call2in1
  \/ Loop2in1
  \/ Finish2in1
  \/ CallDel
  \/ LoopDel
  \/ FinishDel
  \/ CallMerge
  \/ LoopMerge
  \/ FinishMerge
  \/ CallSplit
  \/ OpenSplit
  \/ SaveSplit
  \/ FinishSplit
  \/ CallSplitBy
  \/ LoopSplitBy
  \/ FinishSplitBy
  \/ CliDelpages

Spec == Init /\ [][Next]_vars

\* ---------------------------------------------------------- properties
Returned == pc = "done"

\* The pages the Document at handle d had when it was opened.
Original(d) == FilePages(heap[d].name)

\* seq without the elements whose 1-based position is in S, order kept.
Keep(seq, S) ==
  LET F[i \in 0..Len(seq)] ==
        IF i = 0 THEN <<>>
        ELSE IF i \in S THEN F[i - 1] ELSE Append(F[i - 1], seq[i])
  IN F[Len(seq)]

ElemSet(seq) == {seq[j] : j \in 1..Len(seq)}

Distinct(seq) == Cardinality(ElemSet(seq)) = Len(seq)

CeilDiv(n, k) == (n + k - 1) \div k

RECURSIVE ConcatPages(_)
\* The pages of saved files, one file after the other.
ConcatPages(fs) == IF fs = <<>> THEN <<>> ELSE Head(fs).pages \o ConcatPages(Tail(fs))

RECURSIVE ConcatFiles(_)
\* The pages of the files at a list of paths, one file after the other.
ConcatFiles(paths) ==
  IF paths = <<>> THEN <<>> ELSE FilePages(Head(paths)) \o ConcatFiles(Tail(paths))

InDelete == cmd \in {"del_pdf_pages", "delpages"} /\ loc.doc # NoDoc

ListGiven == args.del_pages.type = "list"

InRange(lst, n) == \A j \in 1..Len(lst) : lst[j] \in 1..n

\* C1: del_pdf_pages with a list of distinct page numbers, each in 1..N, in any
\* order: no deletion fails, and when the call returns exactly one file was
\* saved, holding the original pages without those at the listed positions, in
\* their original order.  (The call ends otherwise only when every page was
\* listed and the engine refuses to save the empty document.)
C1_DeleteDistinctPages ==
  (InDelete /\ ListGiven /\ Distinct(args.del_pages.lst)
     /\ InRange(args.del_pages.lst, Len(Original(loc.doc))))
  => /\ Returned =>
          /\ Len(files) = 1
          /\ files[1].pages = Keep(Original(loc.doc), ElemSet(args.del_pages.lst))
     /\ pc = "raised" => loc.q = <<>> /\ heap[loc.doc].pages = <<>>

\* C1's case: pages 2 and 4 of a 5-page document, listed in ascending order,
\* were deleted and pages 1, 3, 5 saved.
C1_Witness ==
  /\ cmd = "del_pdf_pages" /\ Returned
  /\ args.del_pages.lst = <<2, 4>>
  /\ loc.doc # NoDoc /\ heap[loc.doc].name = 5
  /\ files[1].pages = <<PageId(5, 1), PageId(5, 3), PageId(5, 5)>>

\* C2: merge_pdf saves the base's pages (none without a base) followed by the
\* pages of every source in list order; with a base it works on a copy, ends
\* with a saved output, and leaves the base's own pages as they were.
C2_MergeOutput ==
  cmd = "merge_pdf" =>
    /\ Returned =>
         /\ Len(files) = 1
         /\ files[1].pages =
              (IF args.pdf = NoDoc THEN <<>> ELSE Original(args.pdf))
                \o ConcatFiles(args.pdf_list)
    /\ args.pdf # NoDoc =>
         /\ pc # "raised"
         /\ heap[args.pdf].pages = Original(args.pdf)

\* C3: split_pdf_by_pages with pages_per_doc = k >= 1 on N pages: every file
\* written is number j of 1, 2, ... and holds the 0-based pages
\* [j*k - k, min(j*k, N) - 1]; on return there are ceil(N/k) files, each of k
\* pages but the last, which has N mod k (k when that is 0), and the files in
\* order concatenate to the source.
C3_SplitByPages ==
  (cmd = "split_pdf_by_pages" /\ args.pages_per_doc >= 1) =>
    LET k == args.pages_per_doc
        N == args.pdf_path
        src == FilePages(args.pdf_path)
    IN /\ \A j \in 1..Len(files) :
            /\ files[j].name = OutName(args.pdf_path, "_", j)
            /\ files[j].pages = SubSeq(src, j * k - k + 1, Min(j * k, N))
       /\ Returned =>
            /\ Len(files) = CeilDiv(N, k)
            /\ \A j \in 1..Len(files) :
                 Len(files[j].pages) =
                   IF j < Len(files) \/ N % k = 0 THEN k ELSE N % k
            /\ ConcatPages(files) = src

\* C3's case: 5 pages split by 2 gave three files of 2, 2 and 1 pages.
C3_Witness ==
  /\ cmd = "split_pdf_by_pages" /\ Returned
  /\ args.pdf_path = 5 /\ args.pages_per_doc = 2
  /\ Len(files) = 3
  /\ <<Len(files[1].pages), Len(files[2].pages), Len(files[3].pages)>> = <<2, 2, 1>>

\* C4: split_pdf writes the files _p1, _p2, ... in increasing order, file _pk
\* holding exactly original page k, N files on return; and an output document
\* is open only while it is the newest one and every earlier one has been
\* saved and closed.
C4_SplitSinglePages ==
  cmd = "split_pdf" =>
    LET src == FilePages(args.pdf_path)
    IN /\ \A j \in 1..Len(files) :
            /\ files[j].name = OutName(args.pdf_path, "_p", j)
            /\ files[j].pages = <<src[j]>>
       /\ Returned => Len(files) = Len(src)
       /\ \A h \in 2..Len(heap) :
            ~heap[h].closed =>
              /\ h = Len(heap)
              /\ pc = "split_save"
              /\ Len(files) = h - 2

\* C4's case: the third output document is open, after two files were saved
\* and their documents closed.
C4_Witness ==
  /\ cmd = "split_pdf" /\ pc = "split_save"
  /\ Len(files) = 2 /\ Len(heap) = 4
  /\ heap[2].closed /\ heap[3].closed /\ ~heap[4].closed

\* C5: merge_pdf_2in1 on N pages saves ceil(N/2) pages; 0-based output page j
\* shows source page 2j on the left and, when 2j+1 < N, source page 2j+1 on
\* the right (nothing on the right otherwise); every source page is shown
\* exactly once.
C5_TwoInOne ==
  (cmd = "merge_pdf_2in1" /\ Returned) =>
    LET src == Original(loc.doc)
        N == Len(src)
        out == files[1].pages
    IN /\ Len(files) = 1
       /\ Len(out) = CeilDiv(N, 2)
       /\ \A j \in 0..(Len(out) - 1) :
            /\ out[j + 1].left = src[2 * j + 1]
            /\ out[j + 1].right = IF 2 * j + 1 < N THEN src[2 * j + 2] ELSE NoPage
       /\ \A i \in 1..N :
            Cardinality({j \in 1..Len(out) : out[j].left = src[i]})
              + Cardinality({j \in 1..Len(out) : out[j].right = src[i]}) = 1

\* C5's case: 3 pages gave 2 output pages, the last with its right half empty.
C5_Witness ==
  /\ cmd = "merge_pdf_2in1" /\ Returned
  /\ Len(heap[loc.doc].pages) = 3
  /\ Len(files[1].pages) = 2
  /\ files[1].pages[2].right = NoPage

BlankString(s) == \A j \in 1..Len(s) : s[j] = " "

PrintedTypeError == stdout = <<"Error: del_pages must be int or list">>

\* C6: the delpages command on an empty or all-blank page list: the parser
\* returns None, and the command prints a message and returns, writing no file
\* and raising nothing; del_pdf_pages given a del_pages that is neither an int
\* nor a list likewise prints, returns and saves nothing.
C6_EmptyPageList ==
  /\ (cmd = "delpages" /\ BlankString(args.raw)) =>
       /\ loc.parsedNone
       /\ Returned /\ err = "none" /\ files = <<>> /\ PrintedTypeError
  /\ (cmd = "del_pdf_pages" /\ loc.doc # NoDoc
        /\ args.del_pages.type \notin {"int", "list"}) =>
       /\ Returned /\ err = "none" /\ files = <<>> /\ PrintedTypeError

\* C7: when an operation has returned, every Document handle it opened itself
\* is closed.
C7_HandlesClosed ==
  Returned => \A h \in 1..Len(heap) : heap[h].byOp => heap[h].closed

\* C8: check_pdf_args raises exactly when both or neither of handle and path
\* are given; given only a handle it returns that handle and opens nothing;
\* given only a path it returns a new handle opened from that path.
C8_CheckPdfArgs ==
  (cmd \in {"merge_pdf_2in1", "del_pdf_pages"}) =>
    LET handle == args.pdf # NoDoc
        path == args.pdf_path # NoPath
    IN /\ (handle = path) <=> (pc = "raised" /\ err = "ValueError" /\ loc.doc = NoDoc)
       /\ (handle = path) => \A h \in 1..Len(heap) : ~heap[h].byOp
       /\ (handle /\ ~path) =>
            /\ loc.doc = args.pdf
            /\ \A h \in 1..Len(heap) : heap[h].byOp => heap[h].name = NoPath
       /\ (~handle /\ path) =>
            /\ loc.doc = 1
            /\ heap[loc.doc].byOp
            /\ heap[loc.doc].name = args.pdf_path
            /\ Len(heap[loc.doc].pages) <= Len(FilePages(args.pdf_path))

\* C8's case: both a handle and a path were given, and the call raised with
\* nothing opened.
C8_Witness ==
  /\ cmd = "merge_pdf_2in1"
  /\ args.pdf # NoDoc /\ args.pdf_path # NoPath
  /\ pc = "raised" /\ Len(heap) = 1

\* The numbers a token stands for.
TokenNums(t) ==
  IF t.range
  THEN [j \in 1..(IF t.b >= t.a THEN t.b - t.a + 1 ELSE 0) |-> t.a + (j - 1)]
  ELSE <<t.a>>

RECURSIVE TokensNums(_)
TokensNums(toks) ==
  IF toks = <<>> THEN <<>> ELSE TokenNums(Head(toks)) \o TokensNums(Tail(toks))

\* The parser itself raised: no Document was opened yet.
ParserRaised == pc = "raised" /\ err = "ValueError" /\ heap = <<>>

\* C9: _parse_pages_list on comma- or space-separated tokens returns, in token
\* order, n for a token n and a, a+1, ..., b for a token a-b; the empty string
\* gives None.
C9_ParsePagesList ==
  cmd = "delpages" =>
    /\ intent.wellFormed =>
         /\ ~ParserRaised
         /\ ~loc.parsedNone
         /\ loc.parsed = TokensNums(intent.tokens)
    /\ args.raw = <<>> => loc.parsedNone /\ ~ParserRaised

\* C9's case: "2-4" was parsed to 2, 3, 4.
C9_Witness ==
  /\ cmd = "delpages"
  /\ args.raw = <<"2", "-", "4">>
  /\ loc.parsed = <<2, 3, 4>>

\* C10: del_pdf_pages with an in-range list that names a page more than once
\* saves what the list without its repeats gives: the original pages without
\* those at the listed positions (stated of the outputs that keep a page).
C10_RepeatedPages ==
  (InDelete /\ ListGiven /\ ~Distinct(args.del_pages.lst)
     /\ InRange(args.del_pages.lst, Len(Original(loc.doc))))
  => ((Returned /\ files[1].pages # <<>>) =>
        files[1].pages = Keep(Original(loc.doc), ElemSet(args.del_pages.lst)))
====
